---- MODULE Spec2Model ----
(***************************************************************************)
(* Model of the Aadhaar lifecycle dashboard (src/app.py) and of the        *)
(* spreadsheet converter (src/converter.py).                               *)
(*                                                                         *)
(*   SpecLoad  the memoised loader load_folder_csvs; the file system is    *)
(*             the environment: every execution of the body sees a         *)
(*             directory listing chosen by the environment.                *)
(*   SpecDash  the script reruns of the dashboard: the three tables come   *)
(*             out of the cache and one view is rendered per rerun.        *)
(*   SpecConv  one run of the converter script.                            *)
(***************************************************************************)
EXTENDS Integers, Sequences, FiniteSets, TLC

VARIABLES
    cache,      \* st.cache_data memo of load_folder_csvs: path -> entry
    reads,      \* per path: how often the body of load_folder_csvs ran
    first,      \* per path: the table of the first call that returned
    ret,        \* the last call of load_folder_csvs
    enrol_df,   \* module globals of app.py (lines 60-62)
    demo_df,
    bio_df,
    menu,       \* the sidebar selection of the last script run
    out,        \* what the last script run rendered for the selected view
    cpc,        \* converter: position in the script
    fidx,       \* converter: index of the folder being processed
    todo,       \* converter: files of glob's result not yet converted
    dirs,       \* converter: output directories created by this run
    written,    \* converter: output files written by this run
    converted,  \* converter: input files converted by this run
    listed,     \* converter: per folder processed, the input directory as found
    failed      \* converter: the steps that raised

loadVars == <<cache, reads, first, ret>>
dashVars == <<enrol_df, demo_df, bio_df, menu, out>>
convVars == <<cpc, fidx, todo, dirs, written, converted, listed, failed>>
vars == <<cache, reads, first, ret, enrol_df, demo_df, bio_df, menu, out,
          cpc, fidx, todo, dirs, written, converted, listed, failed>>

(***************************************************************************)
(* Bounds.                                                                 *)
(***************************************************************************)
MaxFiles == 2       \* directory entries per folder listing
MaxFileRows == 1    \* data rows per csv file
MaxSumRows == 2     \* rows of a table given to the column-sum views
MaxGroupRows == 3   \* rows of a table given to the grouped-count view

(***************************************************************************)
(* Cells and data frames.  A cell is a number, a string or NaN; a data     *)
(* frame is its ordered column names and its rows, each row a function     *)
(* from the column names to cells.                                         *)
(***************************************************************************)
Null == [k |-> "null", n |-> 0, s |-> ""]
Num(i) == [k |-> "num", n |-> i, s |-> ""]
Str(x) == [k |-> "str", n |-> 0, s |-> x]

Range(q) == {q[i] : i \in DOMAIN q}

SeqsUpTo(S, n) == UNION {[1..k -> S] : k \in 0..n}

\* pd.DataFrame()
EmptyDataFrame == [columns |-> <<>>, rows |-> <<>>]

\* len(df)
RowCount(df) == Len(df.rows)

\* The parts of the state a specification leaves alone.
DashIdle ==
    /\ enrol_df = EmptyDataFrame /\ demo_df = EmptyDataFrame /\ bio_df = EmptyDataFrame
    /\ menu = "" /\ out = [view |-> "", kind |-> "none", entries |-> <<>>, selected |-> Null]

ConvIdle ==
    /\ cpc = "start" /\ fidx = 1 /\ todo = {} /\ dirs = {} /\ written = {}
    /\ converted = {} /\ listed = <<>> /\ failed = {}

(***************************************************************************)
(* load_folder_csvs                                                        *)
(***************************************************************************)
\* A directory the loader is pointed at: it may not exist; its entries are
\* in glob's discovery order.  An entry has an extension and, for a csv
\* file, what pd.read_csv makes of it: an exception or a frame.
CsvSchemas == {<<"a">>, <<"b">>}

MkFrame(cs, n) ==
    [columns |-> cs, rows |-> [i \in 1..n |-> [c \in Range(cs) |-> Num(i)]]]

CsvFrames == {MkFrame(cs, n) : cs \in CsvSchemas, n \in 0..MaxFileRows}

Entries ==
    {[ext |-> "xlsx", parses |-> FALSE, frame |-> EmptyDataFrame],
     [ext |-> "csv", parses |-> FALSE, frame |-> EmptyDataFrame]}
    \cup {[ext |-> "csv", parses |-> TRUE, frame |-> f] : f \in CsvFrames}

NoDir == [exists |-> FALSE, entries |-> <<>>]

Directories ==
    {NoDir} \cup {[exists |-> TRUE, entries |-> es] : es \in SeqsUpTo(Entries, MaxFiles)}

\* glob.glob(os.path.join(folder_path, "*.csv"))
Glob(dir) ==
    IF dir.exists THEN SelectSeq(dir.entries, LAMBDA e : e.ext = "csv") ELSE <<>>

\* Column labels of a list of frames, in order of first appearance.
RECURSIVE UnionColumns(_, _)
UnionColumns(dfs, acc) ==
    IF dfs = <<>> THEN acc
    ELSE LET new == SelectSeq(Head(dfs).columns, LAMBDA c : c \notin Range(acc))
         IN  UnionColumns(Tail(dfs), acc \o new)

Reindex(row, cols) ==
    [c \in Range(cols) |-> IF c \in DOMAIN row THEN row[c] ELSE Null]

RECURSIVE AppendRows(_, _)
AppendRows(dfs, cols) ==
    IF dfs = <<>> THEN <<>>
    ELSE [i \in 1..Len(Head(dfs).rows) |-> Reindex(Head(dfs).rows[i], cols)]
         \o AppendRows(Tail(dfs), cols)

\* pd.concat(dfs, ignore_index=True): ValueError on an empty list
PdConcat(dfs) ==
    IF dfs = <<>>
    THEN [raised |-> TRUE, table |-> EmptyDataFrame]
    ELSE LET cols == UnionColumns(dfs, <<>>)
         IN  [raised |-> FALSE,
              table |-> [columns |-> cols, rows |-> AppendRows(dfs, cols)]]

\* A faulty variant of ConcatOrEmpty: line 55 without its "if dfs else" guard.
ConcatUnguarded(dfs) == PdConcat(dfs)

\* line 55: pd.concat(dfs, ignore_index=True) if dfs else pd.DataFrame()
ConcatOrEmpty(dfs) ==
    IF dfs # <<>> THEN PdConcat(dfs)
    ELSE [raised |-> FALSE, table |-> EmptyDataFrame]

\* A faulty variant of ReadLoop: the first parse failure ends the loop.
RECURSIVE ReadLoopAborting(_, _, _, _)
ReadLoopAborting(files, i, dfs, warnings) ==
    IF i > Len(files) THEN [dfs |-> dfs, warnings |-> warnings]
    ELSE IF files[i].parses
         THEN ReadLoopAborting(files, i + 1, Append(dfs, files[i].frame), warnings)
         ELSE [dfs |-> dfs, warnings |-> Append(warnings, i)]

\* lines 48-53: the loop over the discovered files; a warning names the
\* position of the file it is about.
RECURSIVE ReadLoop(_, _, _, _)
ReadLoop(files, i, dfs, warnings) ==
    IF i > Len(files) THEN [dfs |-> dfs, warnings |-> warnings]
    ELSE IF files[i].parses
         THEN ReadLoop(files, i + 1, Append(dfs, files[i].frame), warnings)
         ELSE ReadLoop(files, i + 1, dfs, Append(warnings, i))

\* lines 43-55: the body of load_folder_csvs run on a directory
LoadBody(dir) ==
    LET files == Glob(dir)
    IN  IF files = <<>>
        THEN [raised |-> FALSE, table |-> EmptyDataFrame, warnings |-> <<>>]
        ELSE LET r == ReadLoop(files, 1, <<>>, <<>>)
                 c == ConcatOrEmpty(r.dfs)
             IN  [raised |-> c.raised, table |-> c.table, warnings |-> r.warnings]

(***************************************************************************)
(* st.cache_data: the memo keyed by the argument, no ttl, no max_entries.  *)
(***************************************************************************)
LoadPaths == {"data/api_data_aadhar_enrolment", "data/api_data_aadhar_demographic"}

NoEntry == [present |-> FALSE, table |-> EmptyDataFrame]

\* A faulty variant of CacheStore: a memo that keeps one entry (max_entries=1).
CacheStoreSingle(c, p, t) ==
    [q \in DOMAIN c |-> IF q = p THEN [present |-> TRUE, table |-> t] ELSE NoEntry]

CacheStore(c, p, t) == [c EXCEPT ![p] = [present |-> TRUE, table |-> t]]

NoCall ==
    [path |-> "", later |-> FALSE, read |-> FALSE, raised |-> FALSE, dir |-> NoDir,
     table |-> EmptyDataFrame, warnings |-> <<>>]

\* A call load_folder_csvs(p) the memo answers: the body does not run.
LoadCached(p) ==
    /\ cache[p].present
    /\ ret' = [path |-> p, later |-> first[p].present, read |-> FALSE,
               raised |-> FALSE, dir |-> NoDir,
               table |-> cache[p].table, warnings |-> <<>>]
    /\ first' = IF first[p].present THEN first ELSE [first EXCEPT ![p] = cache[p]]
    /\ UNCHANGED <<cache, reads>>
    /\ UNCHANGED dashVars
    /\ UNCHANGED convVars

\* A call load_folder_csvs(p) the memo has no entry for, while the directory
\* at p is dir: the body runs and its return value is stored.
LoadFresh(p, dir) ==
    /\ ~cache[p].present
    /\ LET r == LoadBody(dir)
       IN  /\ ret' = [path |-> p, later |-> first[p].present, read |-> TRUE,
                      raised |-> r.raised, dir |-> dir,
                      table |-> r.table, warnings |-> r.warnings]
           /\ reads' = [reads EXCEPT ![p] = @ + 1]
           /\ cache' = IF r.raised THEN cache ELSE CacheStore(cache, p, r.table)
           /\ first' = IF first[p].present \/ r.raised THEN first
                       ELSE [first EXCEPT ![p] = [present |-> TRUE, table |-> r.table]]
    /\ UNCHANGED dashVars
    /\ UNCHANGED convVars

LoadHit == \E p \in LoadPaths : LoadCached(p)

LoadMiss == \E p \in LoadPaths, dir \in Directories : LoadFresh(p, dir)

(***************************************************************************)
(* Column names.  A name is spelled as its characters, so that             *)
(* "age" in c.lower() is computed on them.                                 *)
(***************************************************************************)
Spell(c) ==
    CASE c = "bio_age_5_17" -> <<"b","i","o","_","a","g","e","_","5","_","1","7">>
      [] c = "Bio_AGE_17_"  -> <<"B","i","o","_","A","G","E","_","1","7","_">>
      [] c = "stage"        -> <<"s","t","a","g","e">>
      [] c = "state"        -> <<"s","t","a","t","e">>
      [] c = "district"     -> <<"d","i","s","t","r","i","c","t">>
      [] c = "date"         -> <<"d","a","t","e">>
      [] OTHER              -> <<>>

UpperCase ==
    <<"A","B","C","D","E","F","G","H","I","J","K","L","M",
      "N","O","P","Q","R","S","T","U","V","W","X","Y","Z">>

LowerCase ==
    <<"a","b","c","d","e","f","g","h","i","j","k","l","m",
      "n","o","p","q","r","s","t","u","v","w","x","y","z">>

\* str.lower() on one character
LowerChar(ch) ==
    IF \E i \in DOMAIN UpperCase : UpperCase[i] = ch
    THEN LowerCase[CHOOSE i \in DOMAIN UpperCase : UpperCase[i] = ch]
    ELSE ch

\* str.lower()
Lower(w) == [i \in DOMAIN w |-> LowerChar(w[i])]

\* needle in hay
Contains(hay, needle) ==
    \E i \in 0..(Len(hay) - Len(needle)) : SubSeq(hay, i + 1, i + Len(needle)) = needle

\* A faulty variant of IsAgeColumn: the match without .lower().
IsAgeColumnCaseSensitive(c) == Contains(Spell(c), <<"a","g","e">>)

\* line 162: "age" in c.lower()
IsAgeColumn(c) == Contains(Lower(Spell(c)), <<"a","g","e">>)

(***************************************************************************)
(* Column sums: df[cols].sum().reset_index()                               *)
(***************************************************************************)
\* A faulty variant of HasAllColumns: any(...) for all(...).
HasAnyColumn(df, cols) == \E i \in DOMAIN cols : cols[i] \in Range(df.columns)

\* lines 108, 136: all(c in df.columns for c in cols)
HasAllColumns(df, cols) == \A i \in DOMAIN cols : cols[i] \in Range(df.columns)

\* A faulty variant of IsEmptyFrame: a frame counts as empty only without columns.
HasNoColumns(df) == Len(df.columns) = 0

\* lines 108, 136, 164, 190: df.empty, true of a frame with no column or no row
IsEmptyFrame(df) == Len(df.columns) = 0 \/ Len(df.rows) = 0

\* df[cols]: KeyError when a label is not a column
SelectColumns(df, cols) ==
    IF \A i \in DOMAIN cols : cols[i] \in Range(df.columns)
    THEN [raised |-> FALSE,
          table |-> [columns |-> cols,
                     rows |-> [i \in DOMAIN df.rows |->
                                  [c \in Range(cols) |-> df.rows[i][c]]]]]
    ELSE [raised |-> TRUE, table |-> EmptyDataFrame]

\* The cells of column c, top to bottom.
Column(df, c) == [i \in DOMAIN df.rows |-> df.rows[i][c]]

\* A faulty variant of NumericSum: the sum stops at the first NaN.
RECURSIVE SumUntilNaN(_)
SumUntilNaN(cells) ==
    IF cells = <<>> \/ Head(cells).k # "num" THEN 0
    ELSE Head(cells).n + SumUntilNaN(Tail(cells))

\* Series.sum() of a numeric column: skipna=True, 0 for an empty column
RECURSIVE NumericSum(_)
NumericSum(cells) ==
    IF cells = <<>> THEN 0
    ELSE (IF Head(cells).k = "num" THEN Head(cells).n ELSE 0) + NumericSum(Tail(cells))

HasString(cells) == \E i \in DOMAIN cells : cells[i].k = "str"

\* What DataFrame.sum() does with a column that holds a string depends on
\* the pandas at hand and on the column's other cells: TypeError, the
\* strings' concatenation as the total, or the column left out.
PandasModes == {"raise", "concat", "drop"}

\* The modes that can differ on df: all of them when df holds a string.
SumModes(df) ==
    IF \E i \in DOMAIN df.rows : \E c \in DOMAIN df.rows[i] : df.rows[i][c].k = "str"
    THEN PandasModes
    ELSE {"raise"}

NoView == [kind |-> "none", entries |-> <<>>, selected |-> Null]
ErrorView == [kind |-> "error", entries |-> <<>>, selected |-> Null]
ExceptionView == [kind |-> "exception", entries |-> <<>>, selected |-> Null]
ChartView(es) == [kind |-> "chart", entries |-> es, selected |-> Null]

\* DataFrame.sum().reset_index() of a frame, one (label, total) per column
SumFrame(df, mode) ==
    LET stringy == {c \in Range(df.columns) : HasString(Column(df, c))}
        kept == IF mode = "drop"
                THEN SelectSeq(df.columns, LAMBDA c : c \notin stringy)
                ELSE df.columns
    IN  IF stringy # {} /\ mode = "raise"
        THEN ExceptionView
        ELSE ChartView([i \in DOMAIN kept |->
                 [label |-> kept[i],
                  total |-> IF kept[i] \in stringy THEN Str("concat")
                            ELSE Num(NumericSum(Column(df, kept[i])))]])

\* lines 111-121, 139-149, 167-177: the summary and its chart
Summary(df, cols, mode) ==
    LET sel == SelectColumns(df, cols)
    IN  IF sel.raised THEN ExceptionView ELSE SumFrame(sel.table, mode)

age_cols == <<"age_0_5", "age_5_17", "age_18_greater">>
demo_cols == <<"demo_age_5_17", "demo_age_17_">>

\* lines 106-126 and 134-154: the views over a fixed list of columns
FixedSumView(df, cols, mode) ==
    IF IsEmptyFrame(df) \/ ~HasAllColumns(df, cols)
    THEN ErrorView
    ELSE Summary(df, cols, mode)

\* line 162
BioAgeCols(df) == SelectSeq(df.columns, IsAgeColumn)

\* lines 162-182: the Biometric Lifecycle view
MatchedSumView(df, mode) ==
    LET bio_age_cols == BioAgeCols(df)
    IN  IF IsEmptyFrame(df) \/ bio_age_cols = <<>>
        THEN ErrorView
        ELSE Summary(df, bio_age_cols, mode)

(***************************************************************************)
(* Regional Insights: the districts of one state and their row counts.     *)
(***************************************************************************)
\* The strings the state and district columns hold, in str's order.
StateNames == <<"Bihar", "Kerala">>
DistrictNames == <<"Agra", "Pune">>
Collation == StateNames \o DistrictNames \o <<"x">>

Rank(x) == CHOOSE i \in DOMAIN Collation : Collation[i] = x

\* sorted(...) of a set of strings
RECURSIVE Sorted(_)
Sorted(S) ==
    IF S = {} THEN <<>>
    ELSE LET m == CHOOSE x \in S : \A y \in S : Rank(x) <= Rank(y)
         IN  <<m>> \o Sorted(S \ {m})

\* line 193: sorted(bio_df["state"].dropna().unique())
StateOptions(df) ==
    Sorted({df.rows[i]["state"].s : i \in {j \in DOMAIN df.rows : df.rows[j]["state"].k # "null"}})

\* line 194: st.selectbox returns the chosen option, None without options
SelectChoices(opts) == IF opts = <<>> THEN {Null} ELSE {Str(opts[i]) : i \in DOMAIN opts}

\* A faulty variant of StateRows: the frame is not filtered.
StateRowsUnfiltered(df, selected) == df.rows

\* line 196: bio_df[bio_df["state"] == selected_state]; NaN and None equal nothing
StateRows(df, selected) ==
    SelectSeq(df.rows, LAMBDA r : r["state"].k # "null" /\ selected.k # "null"
                                  /\ r["state"] = selected)

\* lines 197-201: groupby("district").size().reset_index(): the groups
\* sorted by key, rows with a NaN key left out
GroupSize(rows) ==
    LET keys == Sorted({rows[i]["district"].s :
                        i \in {j \in DOMAIN rows : rows[j]["district"].k # "null"}})
    IN  [g \in DOMAIN keys |->
            [label |-> keys[g],
             total |-> Num(Cardinality({i \in DOMAIN rows :
                                        rows[i]["district"] = Str(keys[g])}))]]

RegionalHasColumns(df) ==
    ~IsEmptyFrame(df) /\ "state" \in Range(df.columns) /\ "district" \in Range(df.columns)

\* lines 190-214: the Regional Insights view with the selectbox at selected
RegionalView(df, selected) ==
    IF ~RegionalHasColumns(df)
    THEN ErrorView
    ELSE [kind |-> "chart", entries |-> GroupSize(StateRows(df, selected)),
          selected |-> selected]

\* lines 95-98: the three record counts
OverviewView(e, d, b) ==
    [kind |-> "metrics",
     entries |-> <<[label |-> "Total Enrolment Records", total |-> Num(RowCount(e))],
                   [label |-> "Demographic Update Records", total |-> Num(RowCount(d))],
                   [label |-> "Biometric Update Records", total |-> Num(RowCount(b))]>>,
     selected |-> Null]

(***************************************************************************)
(* The script of app.py: every run fetches the three tables (the memo      *)
(* answers after the first run) and renders the selected view.             *)
(***************************************************************************)
EnrolPath == "data/api_data_aadhar_enrolment"
DemoPath == "data/api_data_aadhar_demographic"
BioPath == "data/api_data_aadhar_biometric"
DashPaths == {EnrolPath, DemoPath, BioPath}

Menus ==
    {"Overview", "Age-wise Enrolment", "Demographic Updates", "Biometric Lifecycle",
     "Regional Insights", "Smart Update Framework"}

\* lines 83-241: the dispatch on menu
Render(m, e, d, b, selected, mode) ==
    CASE m = "Overview" -> OverviewView(e, d, b)
      [] m = "Age-wise Enrolment" -> FixedSumView(e, age_cols, mode)
      [] m = "Demographic Updates" -> FixedSumView(d, demo_cols, mode)
      [] m = "Biometric Lifecycle" -> MatchedSumView(b, mode)
      [] m = "Regional Insights" -> RegionalView(b, selected)
      [] OTHER -> NoView

Tagged(m, v) == [view |-> m, kind |-> v.kind, entries |-> v.entries, selected |-> v.selected]

\* A faulty variant of Rerun: Regional Insights filters bio_df in place.
RerunFilteringInPlace(m, selected, mode) ==
    /\ enrol_df' = cache[EnrolPath].table
    /\ demo_df' = cache[DemoPath].table
    /\ bio_df' = IF m = "Regional Insights" /\ RegionalHasColumns(cache[BioPath].table)
                 THEN [columns |-> cache[BioPath].table.columns,
                       rows |-> StateRows(cache[BioPath].table, selected)]
                 ELSE cache[BioPath].table
    /\ menu' = m
    /\ out' = Tagged(m, Render(m, enrol_df', demo_df', cache[BioPath].table, selected, mode))
    /\ UNCHANGED loadVars
    /\ UNCHANGED convVars

\* One run of the script with the sidebar at m: lines 60-62, then the view.
Rerun(m, selected, mode) ==
    /\ enrol_df' = cache[EnrolPath].table
    /\ demo_df' = cache[DemoPath].table
    /\ bio_df' = cache[BioPath].table
    /\ menu' = m
    /\ out' = Tagged(m, Render(m, enrol_df', demo_df', bio_df', selected, mode))
    /\ UNCHANGED loadVars
    /\ UNCHANGED convVars

RunOverview == Rerun("Overview", Null, "raise")

RunAgeWise == \E mode \in SumModes(cache[EnrolPath].table) : Rerun("Age-wise Enrolment", Null, mode)

RunDemographic == \E mode \in SumModes(cache[DemoPath].table) : Rerun("Demographic Updates", Null, mode)

RunBiometric == \E mode \in SumModes(cache[BioPath].table) : Rerun("Biometric Lifecycle", Null, mode)

RunRegional ==
    \E selected \in (IF RegionalHasColumns(cache[BioPath].table)
                     THEN SelectChoices(StateOptions(cache[BioPath].table))
                     ELSE {Null}) :
        Rerun("Regional Insights", selected, "raise")

RunSmart == Rerun("Smart Update Framework", Null, "raise")

(***************************************************************************)
(* The tables the dashboard is started on.                                 *)
(***************************************************************************)
NumberCells == {Null, Num(1)}
LabelCells == {Null, Str("x")}
MixedCells == {Null, Num(1), Num(2), Str("x")}
StateCells == {Null} \cup {Str(StateNames[i]) : i \in DOMAIN StateNames}
DistrictCells == {Null} \cup {Str(DistrictNames[i]) : i \in DOMAIN DistrictNames}
AllCells == MixedCells \cup StateCells \cup DistrictCells

CellsOf(c) ==
    CASE c = "state" -> StateCells
      [] c = "district" -> DistrictCells
      [] c \in Range(age_cols) -> NumberCells
      [] c = "date" -> LabelCells
      [] OTHER -> MixedCells

RowsOf(schema) ==
    {r \in [Range(schema) -> AllCells] : \A c \in Range(schema) : r[c] \in CellsOf(c)}

Tables(schema, n) ==
    {[columns |-> schema, rows |-> rs] : rs \in SeqsUpTo(RowsOf(schema), n)}

EnrolSchemas ==
    {age_cols, <<"age_0_5", "age_5_17">>, <<"age_18_greater", "age_0_5">>,
     <<"age_5_17", "age_18_greater">>, <<"date">>}

DemoSchemas ==
    {demo_cols, <<"demo_age_17_", "demo_age_5_17">>, <<"demo_age_5_17">>,
     <<"demo_age_17_">>, <<"date">>}

BioSumSchemas ==
    {<<"bio_age_5_17", "Bio_AGE_17_">>, <<"state", "Bio_AGE_17_">>,
     <<"stage", "date">>, <<"date">>}

BioGroupSchemas ==
    {<<"state", "district">>, <<"state">>, <<"district">>}

EnrolTables == {EmptyDataFrame} \cup UNION {Tables(sc, MaxSumRows) : sc \in EnrolSchemas}
DemoTables == {EmptyDataFrame} \cup UNION {Tables(sc, MaxSumRows) : sc \in DemoSchemas}
BioTables ==
    {EmptyDataFrame} \cup UNION {Tables(sc, MaxSumRows) : sc \in BioSumSchemas}
                     \cup UNION {Tables(sc, MaxGroupRows) : sc \in BioGroupSchemas}

LoadIdle ==
    /\ reads = [p \in DashPaths |-> 1]
    /\ first = cache
    /\ ret = NoCall

\* The state after the first run of the script on tables e, d and b: the
\* tables are loaded and memoised, the sidebar is at its first option.
Started(e, d, b) ==
    /\ cache = (EnrolPath :> [present |-> TRUE, table |-> e])
               @@ (DemoPath :> [present |-> TRUE, table |-> d])
               @@ (BioPath :> [present |-> TRUE, table |-> b])
    /\ enrol_df = e /\ demo_df = d /\ bio_df = b
    /\ menu = "Overview"
    /\ out = Tagged("Overview", OverviewView(e, d, b))
    /\ LoadIdle
    /\ ConvIdle

\* One data set is drawn from its tables while the folders of the other two
\* are missing, or every data set is a table of at most one row.
InitDash ==
    \/ \E e \in EnrolTables : Started(e, EmptyDataFrame, EmptyDataFrame)
    \/ \E d \in DemoTables : Started(EmptyDataFrame, d, EmptyDataFrame)
    \/ \E b \in BioTables : Started(EmptyDataFrame, EmptyDataFrame, b)
    \/ \E e \in Tables(age_cols, 1), d \in Tables(demo_cols, 1),
          b \in Tables(<<"state", "district">>, 1) : Started(e, d, b)

NextDash ==
    \/ RunOverview
    \/ RunAgeWise
    \/ RunDemographic
    \/ RunBiometric
    \/ RunRegional
    \/ RunSmart

SpecDash == InitDash /\ [][NextDash]_vars

InitLoad ==
    /\ cache = [p \in LoadPaths |-> NoEntry]
    /\ reads = [p \in LoadPaths |-> 0]
    /\ first = [p \in LoadPaths |-> NoEntry]
    /\ ret = NoCall
    /\ DashIdle
    /\ ConvIdle

NextLoad == LoadHit \/ LoadMiss

SpecLoad == InitLoad /\ [][NextLoad]_vars

(***************************************************************************)
(* converter.py.  A file name is its dot-separated pieces with the dots,   *)
(* <<"a", ".", "xlsx">> for a.xlsx; a path is a directory and a name.      *)
(***************************************************************************)
OUTPUT_ROOT == "data_csv_converted"

folders ==
    <<"api_data_aadhar_enrolment", "api_data_aadhar_demographic",
      "api_data_aadhar_biometric">>

\* The names an input directory is drawn from.
FileNames ==
    {<<"a", ".", "xlsx">>, <<"a", ".", "b", ".", "xlsx">>, <<"a", ".", "csv">>,
     <<".", "xlsx">>}

NoListing == [exists |-> FALSE, names |-> {}]
Listings == {NoListing} \cup {[exists |-> TRUE, names |-> ns] : ns \in SUBSET FileNames}

\* line 18: os.path.join(OUTPUT_ROOT, folder)
OutputDir(folder) == <<OUTPUT_ROOT, folder>>

\* line 21: glob.glob(os.path.join(input_path, "*.xlsx")); the pattern does
\* not match a name that starts with a dot
GlobXlsx(listing) ==
    IF listing.exists
    THEN {n \in listing.names :
             /\ Len(n) >= 2
             /\ n[1] # "."
             /\ SubSeq(n, Len(n) - 1, Len(n)) = <<".", "xlsx">>}
    ELSE {}

\* A faulty variant of Splitext: the name is split at its first dot.
SplitextFirstDot(n) ==
    LET ds == {i \in DOMAIN n : n[i] = "."}
    IN  IF ds = {} THEN <<n, <<>> >>
        ELSE LET i == CHOOSE j \in ds : \A k \in ds : j <= k
             IN  <<SubSeq(n, 1, i - 1), SubSeq(n, i, Len(n))>>

\* os.path.splitext: split at the last dot, unless only dots precede it
Splitext(n) ==
    LET ds == {i \in DOMAIN n : n[i] = "."}
    IN  IF ds = {} THEN <<n, <<>> >>
        ELSE LET i == CHOOSE j \in ds : \A k \in ds : k <= j
             IN  IF \E j \in 1..(i - 1) : n[j] # "."
                 THEN <<SubSeq(n, 1, i - 1), SubSeq(n, i, Len(n))>>
                 ELSE <<n, <<>> >>

\* lines 25-26: the csv path of an input file
CsvFile(file) ==
    LET name == Splitext(file.name)[1]
    IN  [dir |-> OutputDir(file.folder), name |-> name \o <<".", "csv">>]

\* line 8: os.makedirs(OUTPUT_ROOT, exist_ok=True)
ConvStart ==
    /\ cpc = "start"
    /\ \/ /\ dirs' = dirs \cup {<<OUTPUT_ROOT>>}
          /\ cpc' = "folder"
          /\ UNCHANGED failed
       \/ /\ failed' = failed \cup {[folder |-> "", name |-> <<>>]}
          /\ cpc' = "halted"
          /\ UNCHANGED dirs
    /\ UNCHANGED <<fidx, todo, written, converted, listed>>
    /\ UNCHANGED loadVars
    /\ UNCHANGED dashVars

\* lines 16-21: the head of the loop over folders, the input directory
\* being listing
ConvFolder(listing) ==
    /\ cpc = "folder"
    /\ \/ /\ dirs' = dirs \cup {OutputDir(folders[fidx])}
          /\ todo' = {[folder |-> folders[fidx], name |-> n] : n \in GlobXlsx(listing)}
          /\ listed' = Append(listed, listing)
          /\ cpc' = "files"
          /\ UNCHANGED failed
       \/ /\ failed' = failed \cup {[folder |-> folders[fidx], name |-> <<>>]}
          /\ cpc' = "halted"
          /\ UNCHANGED <<dirs, todo, listed>>
    /\ UNCHANGED <<fidx, written, converted>>
    /\ UNCHANGED loadVars
    /\ UNCHANGED dashVars

\* A faulty variant of ConvFile: a failing file is skipped and the loop goes on.
ConvFileSkipping(file) ==
    /\ cpc = "files"
    /\ file \in todo
    /\ todo' = todo \ {file}
    /\ \/ /\ written' = written \cup {CsvFile(file)}
          /\ converted' = converted \cup {file}
          /\ UNCHANGED failed
       \/ /\ failed' = failed \cup {file}
          /\ UNCHANGED <<written, converted>>
    /\ UNCHANGED <<cpc, fidx, dirs, listed>>
    /\ UNCHANGED loadVars
    /\ UNCHANGED dashVars

\* lines 23-28: one pass of the loop over excel_files: read_excel and to_csv
\* both succeed, or one of them raises and ends the script
ConvFile(file) ==
    /\ cpc = "files"
    /\ file \in todo
    /\ \/ /\ written' = written \cup {CsvFile(file)}
          /\ converted' = converted \cup {file}
          /\ todo' = todo \ {file}
          /\ UNCHANGED <<cpc, failed>>
       \/ /\ failed' = failed \cup {file}
          /\ cpc' = "halted"
          /\ UNCHANGED <<written, converted, todo>>
    /\ UNCHANGED <<fidx, dirs, listed>>
    /\ UNCHANGED loadVars
    /\ UNCHANGED dashVars

\* lines 16, 23, 30: the end of the inner loop: the next folder, or the end
ConvNext ==
    /\ cpc = "files"
    /\ todo = {}
    /\ IF fidx < Len(folders)
       THEN fidx' = fidx + 1 /\ cpc' = "folder"
       ELSE fidx' = fidx /\ cpc' = "done"
    /\ UNCHANGED <<todo, dirs, written, converted, listed, failed>>
    /\ UNCHANGED loadVars
    /\ UNCHANGED dashVars

ConvListFolder == \E listing \in Listings : ConvFolder(listing)

ConvConvert == \E file \in todo : ConvFile(file)

InitConv ==
    /\ cache = [p \in LoadPaths |-> NoEntry]
    /\ reads = [p \in LoadPaths |-> 0]
    /\ first = [p \in LoadPaths |-> NoEntry]
    /\ ret = NoCall
    /\ DashIdle
    /\ ConvIdle

NextConv ==
    \/ ConvStart
    \/ ConvListFolder
    \/ ConvConvert
    \/ ConvNext

SpecConv == InitConv /\ [][NextConv]_vars

(***************************************************************************)
(* Properties of the loader (SpecLoad).                                    *)
(***************************************************************************)
\* What a call that ran the body had before it: the *.csv entries of the
\* directory, those pd.read_csv parses and those it does not.
SeenCsv == IF ret.dir.exists THEN SelectSeq(ret.dir.entries, LAMBDA e : e.ext = "csv") ELSE <<>>
SeenGood == SelectSeq(SeenCsv, LAMBDA e : e.parses)
SeenBad == {i \in DOMAIN SeenCsv : ~SeenCsv[i].parses}

RECURSIVE RowsUpTo(_, _)
RowsUpTo(files, k) == IF k = 0 THEN 0 ELSE RowsUpTo(files, k - 1) + Len(files[k].frame.rows)

\* C1: a load that reads a folder with N parseable and M unparseable *.csv
\* files returns without raising a table with as many rows as the N
\* parseable files have together, the rows of every parseable file at their
\* place in discovery order, and emits exactly M warnings, one per failing
\* file.
C1_RowsAndWarnings ==
    ret.read =>
        /\ ~ret.raised
        /\ RowCount(ret.table) = RowsUpTo(SeenGood, Len(SeenGood))
        /\ Len(ret.warnings) = Cardinality(SeenBad)
        /\ Range(ret.warnings) = SeenBad
        /\ \A k \in DOMAIN SeenGood : \A i \in DOMAIN SeenGood[k].frame.rows :
              \A c \in Range(SeenGood[k].frame.columns) :
                 ret.table.rows[RowsUpTo(SeenGood, k - 1) + i][c] = SeenGood[k].frame.rows[i][c]

\* A load saw an unparseable file before a parseable file with rows.
C1_Witness ==
    /\ ret.read
    /\ \E i, j \in DOMAIN SeenCsv :
          i < j /\ ~SeenCsv[i].parses /\ SeenCsv[j].parses /\ Len(SeenCsv[j].frame.rows) >= 1
    /\ RowCount(ret.table) >= 1
    /\ Len(ret.warnings) >= 1

\* C2: a load of a folder that does not exist, holds no *.csv file or holds
\* only *.csv files that fail to parse returns the empty table (no rows, no
\* columns) and does not raise.
C2_EmptyTable ==
    (ret.read /\ SeenGood = <<>>) =>
        /\ ~ret.raised
        /\ ret.table.rows = <<>>
        /\ ret.table.columns = <<>>

\* A load saw *.csv files and every one of them failed to parse.
C2_Witness ==
    /\ ret.read
    /\ Len(SeenCsv) >= 2
    /\ SeenGood = <<>>
    /\ ~ret.raised
    /\ ret.table = EmptyDataFrame

\* C3: a call for a path an earlier call has returned for reads nothing from
\* disk and returns the first call's table, whatever the directory holds by
\* then and whatever other paths were loaded in between; no path is read
\* more than once.
C3_LoadedOnce ==
    /\ \A p \in DOMAIN reads : reads[p] <= 1
    /\ ret.later => (~ret.read /\ ~ret.raised /\ ret.table = first[ret.path].table)

\* A repeated call, after both paths were read, returned a table with rows.
C3_Witness ==
    /\ ret.later
    /\ \A p \in DOMAIN reads : reads[p] = 1
    /\ RowCount(ret.table) >= 1
    /\ \E p \in DOMAIN cache : cache[p].table # ret.table

(***************************************************************************)
(* Properties of the views (SpecDash).                                     *)
(***************************************************************************)
FixedViews == {"Age-wise Enrolment", "Demographic Updates"}

\* The table and the column list of the fixed-column view last rendered.
ViewTable == IF out.view = "Age-wise Enrolment" THEN enrol_df ELSE demo_df
Requested == IF out.view = "Age-wise Enrolment" THEN age_cols ELSE demo_cols

AllRequestedPresent == \A i \in DOMAIN Requested : Requested[i] \in Range(ViewTable.columns)

\* The sum of the numbers of column c of df.
NumbersTotal(df, c) ==
    Cardinality({i \in DOMAIN df.rows : df.rows[i][c] = Num(1)})
    + 2 * Cardinality({i \in DOMAIN df.rows : df.rows[i][c] = Num(2)})

HoldsString(df, c) == \E i \in DOMAIN df.rows : df.rows[i][c].k = "str"

\* C4: a fixed-column view whose table lacks one of the requested columns
\* signals the error and produces no entry; it does not raise.
C4_MissingColumn ==
    (out.view \in FixedViews /\ ~AllRequestedPresent) =>
        (out.kind = "error" /\ out.entries = <<>>)

\* A table with rows that has one requested column and lacks another.
C4_Witness ==
    /\ out.view \in FixedViews
    /\ RowCount(ViewTable) >= 1
    /\ \E i \in DOMAIN Requested : Requested[i] \in Range(ViewTable.columns)
    /\ ~AllRequestedPresent
    /\ out.kind = "error"

\* C5 as stated: a fixed-column view of a table with zero rows (that has
\* the requested columns) gives every requested column the total 0 and
\* signals no error.
C5_Original ==
    (out.view \in FixedViews /\ RowCount(ViewTable) = 0 /\ AllRequestedPresent) =>
        /\ out.kind = "chart"
        /\ Len(out.entries) = Len(Requested)
        /\ \A i \in DOMAIN out.entries : out.entries[i].total = Num(0)

\* C5 as amended: a fixed-column view of a table with zero rows signals the
\* error and computes no total, also when the table has every requested
\* column.
C5_ZeroRowsIsError ==
    (out.view \in FixedViews /\ RowCount(ViewTable) = 0) =>
        (out.kind = "error" /\ out.entries = <<>>)

\* A table with every requested column and no row was rendered.
C5_Witness ==
    /\ out.view \in FixedViews
    /\ RowCount(ViewTable) = 0
    /\ AllRequestedPresent
    /\ out.kind = "error"

\* The entries C6 promises: one per requested column, in the order asked,
\* with the numbers' sum as the total.
SumEntries(df, cols) ==
    [i \in DOMAIN cols |-> [label |-> cols[i], total |-> Num(NumbersTotal(df, cols[i]))]]

\* C6 as stated: whenever every requested column is present the view shows
\* one entry per requested column, in the order asked, with the sum of the
\* column's numbers, strings and absent values counting as zero.
C6_Original ==
    (out.view \in FixedViews /\ AllRequestedPresent) =>
        (out.kind = "chart" /\ out.entries = SumEntries(ViewTable, Requested))

\* C6 as amended: the same, for a table with at least one row whose
\* requested columns hold numbers and absent values only.
C6_SumsInOrder ==
    (/\ out.view \in FixedViews
     /\ AllRequestedPresent
     /\ RowCount(ViewTable) >= 1
     /\ \A i \in DOMAIN Requested : ~HoldsString(ViewTable, Requested[i])) =>
        (out.kind = "chart" /\ out.entries = SumEntries(ViewTable, Requested))

\* The demographic table has its columns in another order than requested,
\* an absent value, and a column that sums to 3.
C6_Witness ==
    /\ out.view = "Demographic Updates"
    /\ out.kind = "chart"
    /\ demo_df.columns = <<"demo_age_17_", "demo_age_5_17">>
    /\ \E i \in DOMAIN demo_df.rows : demo_df.rows[i]["demo_age_17_"] = Null
    /\ out.entries = <<[label |-> "demo_age_5_17", total |-> Num(3)],
                       [label |-> "demo_age_17_", total |-> Num(2)]>>

\* The column names of the model that contain "age" in some casing.
AgeNamed == {"bio_age_5_17", "Bio_AGE_17_", "stage"}
ExpectedAgeCols == SelectSeq(bio_df.columns, LAMBDA c : c \in AgeNamed)

\* C7 as stated: the Biometric Lifecycle view shows one entry per column
\* whose name contains "age" in any casing, in the table's column order,
\* and none for another column; it signals the error when no column matches.
C7_Original ==
    out.view = "Biometric Lifecycle" =>
        /\ ExpectedAgeCols = <<>> => out.kind = "error"
        /\ ExpectedAgeCols # <<>> =>
              /\ out.kind = "chart"
              /\ Len(out.entries) = Len(ExpectedAgeCols)
              /\ \A i \in DOMAIN out.entries : out.entries[i].label = ExpectedAgeCols[i]

\* C7 as amended: that holds for a table with at least one row whose
\* matching columns hold numbers and absent values only, the totals being
\* the columns' sums; a table with zero rows signals the error like a table
\* without a matching column.
C7_MatchedColumns ==
    out.view = "Biometric Lifecycle" =>
        /\ (ExpectedAgeCols = <<>> \/ RowCount(bio_df) = 0) =>
              (out.kind = "error" /\ out.entries = <<>>)
        /\ (/\ ExpectedAgeCols # <<>>
            /\ RowCount(bio_df) >= 1
            /\ \A i \in DOMAIN ExpectedAgeCols : ~HoldsString(bio_df, ExpectedAgeCols[i])) =>
              (out.kind = "chart" /\ out.entries = SumEntries(bio_df, ExpectedAgeCols))

\* A table with a column that matches in upper case after one that does not.
C7_Witness ==
    /\ out.view = "Biometric Lifecycle"
    /\ bio_df.columns = <<"state", "Bio_AGE_17_">>
    /\ RowCount(bio_df) >= 2
    /\ out.kind = "chart"
    /\ out.entries = <<[label |-> "Bio_AGE_17_", total |-> Num(3)]>>

\* The rows of bio_df whose state is the selected one, and their districts.
MatchingRows ==
    {i \in DOMAIN bio_df.rows :
        /\ bio_df.rows[i]["state"].k = "str"
        /\ out.selected.k = "str"
        /\ bio_df.rows[i]["state"].s = out.selected.s}
MatchingDistricts ==
    {bio_df.rows[i]["district"].s : i \in {j \in MatchingRows : bio_df.rows[j]["district"].k = "str"}}

C10_TablesUnchanged ==
    [][/\ enrol_df' = enrol_df
       /\ demo_df' = demo_df
       /\ bio_df' = bio_df
       /\ cache' = cache
       /\ out'.view = menu']_vars

\* Regional Insights was rendered for a state that some row is not of.
C10_Witness ==
    /\ menu = "Regional Insights"
    /\ out.kind = "chart"
    /\ out.entries # <<>>
    /\ \E i \in DOMAIN bio_df.rows : i \notin MatchingRows
    /\ bio_df = cache[BioPath].table

(***************************************************************************)
(* Properties of the converter (SpecConv).                                 *)
(***************************************************************************)
\* The spreadsheet names of the model, each with the csv name it is owed.
XlsxNames == {<<"a", ".", "xlsx">>, <<"a", ".", "b", ".", "xlsx">>}
OwedName(n) == SubSeq(n, 1, Len(n) - 2) \o <<".", "csv">>

\* The *.xlsx files of the input directories listed so far.
FoundXlsx ==
    UNION {{[folder |-> folders[f], name |-> n] : n \in XlsxNames \cap listed[f].names} :
           f \in DOMAIN listed}

Owed(file) == [dir |-> <<OUTPUT_ROOT, file.folder>>, name |-> OwedName(file.name)]

\* C9: a run that ends without a failure has created the three output
\* folders and written exactly one <basename>.csv under
\* OUTPUT_ROOT/<folder> per *.xlsx file found in the input folder, no two
\* files sharing an output; a failure ends the run at that file: nothing is
\* converted after it.
C9_MirrorsInputs ==
    /\ [](cpc = "done" =>
            /\ failed = {}
            /\ Len(listed) = Len(folders)
            /\ \A f \in DOMAIN folders : <<OUTPUT_ROOT, folders[f]>> \in dirs
            /\ converted = FoundXlsx
            /\ written = {Owed(file) : file \in FoundXlsx}
            /\ \A x, y \in FoundXlsx : x # y => Owed(x) # Owed(y)
            /\ Cardinality(written) = Cardinality(FoundXlsx))
    /\ [](failed # {} => (cpc = "halted" /\ Cardinality(failed) = 1
                          /\ failed \cap converted = {}))
    /\ [][failed # {} => (written' = written /\ converted' = converted
                          /\ dirs' = dirs /\ cpc' = cpc)]_vars

\* A run ended after writing a.csv and a.b.csv for one folder, beside files
\* that are no spreadsheets.
C9_Witness ==
    /\ cpc = "done"
    /\ \E f \in DOMAIN listed : listed[f].names = FileNames
    /\ \E f \in DOMAIN listed : ~listed[f].exists
    /\ Cardinality(written) = 2

====
